---- MODULE Spec2Model ----
(***************************************************************************)
(* Model of the confirmation-matching pipeline:                            *)
(*   create_confirmation_table.py  the confirmation_data table             *)
(*   llm_metadata.py               FIELD_LLM_METADATA                      *)
(*   confirmation_parser.py        process_new_raw_rows (extraction run)   *)
(*   update_validation_status.py   update_validation_statuses              *)
(*                                                                         *)
(* A text value is a sequence of one-character strings, so that strip()    *)
(* and lower() are computed character by character.                        *)
(*                                                                         *)
(* The operations run one after another on one sqlite database, as the     *)
(* scripts do: a run of process_new_raw_rows is a sequence of steps, one   *)
(* per extraction call, whose writes stay in the run's own transaction     *)
(* (conn) until the commit; upstream writes and validation passes happen   *)
(* between runs.                                                           *)
(***************************************************************************)
EXTENDS Integers, Sequences, FiniteSets, TLC

\* ------------------------------------------------------------------ bounds
MaxRecords == 1      \* rows inserted into confirmation_data
MaxFilled == 2       \* source cells of the table that are not NULL
MaxOps == 5          \* operations on the table: inserts, source rewrites, runs, passes
MaxOtherOps == 3     \* the second invocation starts among the first MaxOtherOps operations

\* ------------------------------------------------------------------ values
\* A cell value as Python sees it after sqlite3 returns it.
NULL == [kind |-> "null", s |-> <<>>, n |-> 0]

Text(s) == [kind |-> "text", s |-> s, n |-> 0]

\* A float; s is the text Python's str() gives for it.
Real(s) == [kind |-> "real", s |-> s, n |-> 0]

Integer(n) == [kind |-> "int", s |-> <<>>, n |-> n]

\* The blank is the only whitespace character in the values tried.
IsSpace(c) == c = " "

RECURSIVE lstrip(_)
lstrip(s) == IF s # <<>> /\ IsSpace(Head(s)) THEN lstrip(Tail(s)) ELSE s

RECURSIVE rstrip(_)
rstrip(s) ==
    IF s # <<>> /\ IsSpace(s[Len(s)]) THEN rstrip(SubSeq(s, 1, Len(s) - 1)) ELSE s

\* str.strip()
strip(s) == rstrip(lstrip(s))

UpperCase ==
    <<"A", "B", "C", "D", "E", "F", "G", "H", "I", "J", "K", "L", "M",
      "N", "O", "P", "Q", "R", "S", "T", "U", "V", "W", "X", "Y", "Z">>

LowerCase ==
    <<"a", "b", "c", "d", "e", "f", "g", "h", "i", "j", "k", "l", "m",
      "n", "o", "p", "q", "r", "s", "t", "u", "v", "w", "x", "y", "z">>

LowerChar(c) ==
    IF \E n \in 1..Len(UpperCase) : UpperCase[n] = c
    THEN LowerCase[CHOOSE n \in 1..Len(UpperCase) : UpperCase[n] = c]
    ELSE c

\* str.lower()
lower(s) == [k \in 1..Len(s) |-> LowerChar(s[k])]

\* str(value) for a non-None cell value
str(v) == v.s

\* ------------------------------------------------------------------ schema
SourceColumns ==
    <<"currency", "settlement_amount", "buy_sell", "isin", "settlement_date", "SSI">>

NumFields == Len(SourceColumns)

LLMColumnOf(c) ==
    CASE c = "currency" -> "currency_LLM"
      [] c = "settlement_amount" -> "settlement_amount_LLM"
      [] c = "buy_sell" -> "buy_sell_LLM"
      [] c = "isin" -> "isin_LLM"
      [] c = "settlement_date" -> "settlement_date_LLM"
      [] c = "SSI" -> "SSI_LLM"

ValidationColumnOf(c) ==
    CASE c = "currency" -> "currency_validation"
      [] c = "settlement_amount" -> "settlement_amount_validation"
      [] c = "buy_sell" -> "buy_sell_validation"
      [] c = "isin" -> "isin_validation"
      [] c = "settlement_date" -> "settlement_date_validation"
      [] c = "SSI" -> "SSI_validation"

SourceSet == {SourceColumns[k] : k \in 1..NumFields}

LLMSet == {LLMColumnOf(c) : c \in SourceSet}

ValidationSet == {ValidationColumnOf(c) : c \in SourceSet}

\* CREATE TABLE confirmation_data
Columns == {"id", "creation_date"} \cup SourceSet \cup LLMSet \cup ValidationSet

\* Declared column type: settlement_amount is REAL, every other data column TEXT.
Affinity(col) == IF col = "settlement_amount" THEN "REAL" ELSE "TEXT"

\* What sqlite stores when a Python value is bound to a column: a number
\* bound to a TEXT column is converted to its text form.
Stored(col, v) ==
    IF Affinity(col) = "TEXT" /\ v.kind = "real" THEN Text(v.s) ELSE v

\* DEFAULT CURRENT_TIMESTAMP
CURRENT_TIMESTAMP == Text(<<"t">>)

\* FIELD_LLM_METADATA.values(), in dictionary order. json_type and enum are
\* the "type" and "enum" entries of format_schema.
BUY == Text(<<"B", "U", "Y">>)

SELL == Text(<<"S", "E", "L", "L">>)

FieldLLMMetadata(src, type, enum) ==
    [source_column |-> src, llm_column |-> LLMColumnOf(src), output_key |-> src,
     json_type |-> type, enum |-> enum]

FIELD_LLM_METADATA ==
    << FieldLLMMetadata("currency", "string", {}),
       FieldLLMMetadata("settlement_amount", "number", {}),
       FieldLLMMetadata("buy_sell", "string", {BUY, SELL, NULL}),
       FieldLLMMetadata("isin", "string", {}),
       FieldLLMMetadata("settlement_date", "string", {}),
       FieldLLMMetadata("SSI", "string", {}) >>

\* ------------------------------------------------------- confirmation_parser
\* _has_value without the blank-string test of line 16.
HasValueNotNone(value) == value # NULL

_has_value(value) ==
    IF value = NULL THEN FALSE
    ELSE IF value.kind = "text" /\ strip(value.s) = <<>> THEN FALSE
    ELSE TRUE

\* What an ollama.chat call can come back with: the call itself raising, a
\* message content that is not JSON, a JSON object without the output key,
\* or a JSON object carrying a value under the output key.
\* The values tried under the output key: JSON null, a blank string, a string
\* with a leading blank, "BUY", and for the numeric field the number 5.0.
ResponseValues(metadata) ==
    IF metadata.json_type = "number"
    THEN {NULL, Text(<<" ">>), Real(<<"5", ".", "0">>)}
    ELSE {NULL, Text(<<" ">>), Text(<<" ", "b">>), BUY}

Responses(metadata) ==
    {[tag |-> "error", v |-> NULL], [tag |-> "nonjson", v |-> NULL],
     [tag |-> "nokey", v |-> NULL]}
    \cup {[tag |-> "json", v |-> v] : v \in ResponseValues(metadata)}

\* _extract_column_value: ollama.chat or json.loads raising propagates;
\* parsed.get(output_key) gives None for a missing key.
_extract_column_value(resp) ==
    CASE resp.tag = "error" -> [raised |-> TRUE, value |-> NULL]
      [] resp.tag = "nonjson" -> [raised |-> TRUE, value |-> NULL]
      [] resp.tag = "nokey" -> [raised |-> FALSE, value |-> NULL]
      [] resp.tag = "json" -> [raised |-> FALSE, value |-> resp.v]

\* The source column a *_LLM column belongs to.
SourceColumnOf(llm_column) == CHOOSE c \in SourceSet : LLMColumnOf(c) = llm_column

\* _update_llm_column with the UPDATE aimed at the source column.
UpdateSourceColumn(t, row_id, llm_column, value) ==
    [r \in 1..Len(t) |->
        IF t[r]["id"] = Integer(row_id)
        THEN [t[r] EXCEPT ![SourceColumnOf(llm_column)] =
                              Stored(SourceColumnOf(llm_column), value)]
        ELSE t[r]]

\* UPDATE confirmation_data SET {llm_column} = ? WHERE id = ?
\* _update_llm_column with the UPDATE aimed at another field's *_LLM column.
UpdateOtherLLMColumn(t, row_id, llm_column, value) ==
    LET other == IF llm_column = "currency_LLM" THEN "isin_LLM" ELSE "currency_LLM"
    IN  [r \in 1..Len(t) |->
            IF t[r]["id"] = Integer(row_id)
            THEN [t[r] EXCEPT ![other] = Stored(other, value)]
            ELSE t[r]]

\* _update_llm_column with an UPDATE that also resets the pair's status.
UpdateClearsStatus(t, row_id, llm_column, value) ==
    [r \in 1..Len(t) |->
        IF t[r]["id"] = Integer(row_id)
        THEN [t[r] EXCEPT ![llm_column] = Stored(llm_column, value),
                          ![ValidationColumnOf(SourceColumnOf(llm_column))] = NULL]
        ELSE t[r]]

_update_llm_column(t, row_id, llm_column, value) ==
    [r \in 1..Len(t) |->
        IF t[r]["id"] = Integer(row_id)
        THEN [t[r] EXCEPT ![llm_column] = Stored(llm_column, value)]
        ELSE t[r]]

\* ------------------------------------------------- update_validation_status
MATCHED == Text(<<"m", "a", "t", "c", "h", "e", "d">>)

UNMATCHED == Text(<<"u", "n", "m", "a", "t", "c", "h", "e", "d">>)

_normalize(value) ==
    IF value = NULL THEN NULL ELSE Text(strip(str(value)))

buy_tokens ==
    {<<"b", "u", "y">>, <<"b">>, <<"p", "u", "r", "c", "h", "a", "s", "e">>,
     <<"l", "o", "n", "g">>}

sell_tokens ==
    {<<"s", "e", "l", "l">>, <<"s">>, <<"s", "h", "o", "r", "t">>,
     <<"d", "i", "s", "p", "o", "s", "e">>}

\* _normalize_buy_sell without the .lower() of line 23.
NormalizeBuySellCaseSensitive(value) ==
    IF value = NULL THEN NULL
    ELSE LET token == strip(str(value))
         IN  IF token = <<>> THEN NULL
             ELSE IF token \in buy_tokens THEN Text(<<"b", "u", "y">>)
             ELSE IF token \in sell_tokens THEN Text(<<"s", "e", "l", "l">>)
             ELSE Text(token)

_normalize_buy_sell(value) ==
    IF value = NULL THEN NULL
    ELSE LET token == lower(strip(str(value)))
         IN  IF token = <<>> THEN NULL
             ELSE IF token \in buy_tokens THEN Text(<<"b", "u", "y">>)
             ELSE IF token \in sell_tokens THEN Text(<<"s", "e", "l", "l">>)
             ELSE Text(token)

\* pairs
pairs ==
    [k \in 1..NumFields |->
        <<SourceColumns[k], LLMColumnOf(SourceColumns[k]),
          ValidationColumnOf(SourceColumns[k])>>]

\* The rewrite of lines 50-59 applied to every *_LLM column.
NormalizeEveryLLM(t) ==
    [r \in 1..Len(t) |->
        [c \in Columns |->
            IF c \in LLMSet THEN Stored(c, _normalize_buy_sell(t[r][c])) ELSE t[r][c]]]

\* lines 50-59: rewrite buy_sell_LLM of every row with its normalized form
NormalizeBuySellLLM(t) ==
    [r \in 1..Len(t) |->
        [t[r] EXCEPT !["buy_sell_LLM"] =
            Stored("buy_sell_LLM", _normalize_buy_sell(t[r]["buy_sell_LLM"]))]]

\* Status leaving the column empty when there is nothing to compare.
StatusOrNull(source_col, source_value, llm_value) ==
    LET left == IF source_col = "buy_sell" THEN _normalize_buy_sell(source_value)
                ELSE _normalize(source_value)
        right == IF source_col = "buy_sell" THEN _normalize_buy_sell(llm_value)
                 ELSE _normalize(llm_value)
    IN  IF left = NULL /\ right = NULL THEN NULL
        ELSE IF left # NULL /\ right # NULL /\ left = right THEN MATCHED
        ELSE UNMATCHED

\* lines 67-73: the status of one row for one pair
Status(source_col, source_value, llm_value) ==
    LET left == IF source_col = "buy_sell" THEN _normalize_buy_sell(source_value)
                ELSE _normalize(source_value)
        right == IF source_col = "buy_sell" THEN _normalize_buy_sell(llm_value)
                 ELSE _normalize(llm_value)
    IN  IF left # NULL /\ right # NULL /\ left = right THEN MATCHED ELSE UNMATCHED

\* The loop over pairs with a status that, once 'matched', is kept.
ValidatePairsSticky(t, k) ==
    [r \in 1..Len(t) |->
        [c \in Columns |->
            IF \E n \in 1..k : pairs[n][3] = c
            THEN LET p == pairs[CHOOSE n \in 1..k : pairs[n][3] = c]
                 IN  IF t[r][c] = MATCHED THEN MATCHED
                     ELSE Status(p[1], t[r][p[1]], t[r][p[2]])
            ELSE t[r][c]]]

\* lines 61-79: the loop over pairs, k pairs done
RECURSIVE ValidatePairs(_, _)
ValidatePairs(t, k) ==
    IF k = 0 THEN t
    ELSE LET prev == ValidatePairs(t, k - 1)
             p == pairs[k]
         IN  [r \in 1..Len(prev) |->
                [prev[r] EXCEPT ![p[3]] = Status(p[1], prev[r][p[1]], prev[r][p[2]])]]

\* ------------------------------------------------------------------- state
VARIABLES
    db,              \* committed content of confirmation_data, row r has id r
    pc,              \* "idle", or "loop" while process_new_raw_rows is running
    rows,            \* process_new_raw_rows: rows fetched by _fetch_rows
    conn,            \* process_new_raw_rows: the table as its connection sees it
    i,               \* process_new_raw_rows: index into rows
    j,               \* process_new_raw_rows: index into FIELD_LLM_METADATA
    updated_values,  \* process_new_raw_rows: the counter
    result,          \* how the last run ended, and its return value
    calls,           \* extraction calls of the current (or last) run
    lastOp,          \* the operation that took the last step
    ops,             \* operations started on the table so far
    resume,          \* the last run completed and no source cell changed since
    nullDone,        \* pairs <<id, field>> whose call returned JSON null, source unchanged since
    okDone,          \* pairs <<id, field>> for which a call has returned a JSON value
    retry,           \* pairs whose call failed in the last finished run, source unchanged since
    streak,          \* validation passes that ran one right after the other
    other            \* a second invocation of process_new_raw_rows (another process)

vars == <<db, pc, rows, conn, i, j, updated_values, result, calls, lastOp,
          ops, resume, nullDone, okDone, retry, streak, other>>

\* The second invocation before it connects, and after it has ended. Its log
\* holds the pairs it issued a call for, and is kept until it starts again.
OtherIdle(log) ==
    [pc |-> "idle", rows |-> <<>>, conn |-> <<>>, i |-> 0, j |-> 0,
     updated_values |-> 0, calls |-> log]

\* sqlite3 opens a transaction at an invocation's first UPDATE (line 63) and
\* the connection then holds the database's write lock until it commits or
\* closes; every call that returned was followed by an UPDATE.
HoldsLock == pc = "loop" /\ calls # <<>>

OtherHoldsLock == other.pc = "loop" /\ other.calls # <<>>

\* Values an upstream writer puts into a source column.
SourceValues(col) ==
    IF col = "settlement_amount"
    THEN {NULL, Text(<<>>), Real(<<"5", ".", "0">>)}
    ELSE {NULL, Text(<<>>), Text(<<"b">>)}

NewRow(id, src) ==
    [c \in Columns |->
        IF c = "id" THEN Integer(id)
        ELSE IF c = "creation_date" THEN CURRENT_TIMESTAMP
        ELSE IF c \in SourceSet THEN Stored(c, src[c])
        ELSE NULL]

\* create_confirmation_table: an empty table
Init ==
    /\ db = <<>>
    /\ pc = "idle"
    /\ rows = <<>>
    /\ conn = <<>>
    /\ i = 0
    /\ j = 0
    /\ updated_values = 0
    /\ result = [status |-> "none", value |-> 0]
    /\ calls = <<>>
    /\ lastOp = "create"
    /\ ops = 0
    /\ resume = FALSE
    /\ nullDone = {}
    /\ okDone = {}
    /\ retry = {}
    /\ streak = 0
    /\ other = OtherIdle(<<>>)

\* The return value, counter and call log of a finished run are kept only
\* until the next operation on the table.
Forget ==
    /\ result' = [status |-> "none", value |-> 0]
    /\ calls' = <<>>
    /\ updated_values' = 0

\* The number of source cells of table t that are not NULL.
Filled(t) ==
    Cardinality({p \in (1..Len(t)) \X SourceSet : t[p[1]][p[2]] # NULL})

\* Upstream: INSERT of a row carrying source values only, for the columns
\* in given; the other columns are left NULL.
InsertRow ==
    /\ pc = "idle"
    /\ other.pc = "idle"
    /\ Len(db) < MaxRecords
    /\ ops < MaxOps
    /\ \E given \in SUBSET SourceSet :
          /\ Filled(db) + Cardinality(given) <= MaxFilled
          /\ \E src \in [given -> UNION {SourceValues(c) \ {NULL} : c \in given}] :
                /\ \A c \in given : src[c] \in SourceValues(c)
                /\ db' = Append(db, NewRow(Len(db) + 1,
                                  [c \in SourceSet |-> IF c \in given THEN src[c] ELSE NULL]))
    /\ lastOp' = "insert"
    /\ resume' = FALSE
    /\ Forget
    /\ ops' = ops + 1
    /\ streak' = 0
    /\ UNCHANGED <<pc, rows, conn, i, j, nullDone, okDone, retry, other>>

\* Upstream: a source cell that holds something is rewritten.
EditSource ==
    /\ pc = "idle"
    /\ other.pc = "idle"
    /\ ops < MaxOps
    /\ \E r \in 1..Len(db), k \in 1..NumFields :
          \E v \in SourceValues(SourceColumns[k]) :
             /\ v # db[r][SourceColumns[k]]
             /\ db[r][SourceColumns[k]] # NULL
             /\ db' = [db EXCEPT ![r][SourceColumns[k]] = Stored(SourceColumns[k], v)]
             /\ nullDone' = nullDone \ {<<r, k>>}
             /\ retry' = retry \ {<<r, k>>}
    /\ ops' = ops + 1
    /\ lastOp' = "edit"
    /\ resume' = FALSE
    /\ streak' = 0
    /\ Forget
    /\ UNCHANGED <<pc, rows, conn, i, j, okDone, other>>

\* Line 82 without its test of the extracted value.
EligibleSourceOnly(row, metadata) == _has_value(row[metadata.source_column])

\* line 82
Eligible(row, metadata) ==
    ~ (~ _has_value(row[metadata.source_column]) \/ _has_value(row[metadata.llm_column]))

\* The position after <<r, k>> in the two nested for loops.
Succ(r, k) == IF k < NumFields THEN <<r, k + 1>> ELSE <<r + 1, 1>>

\* lines 74-83: from position <<r, k>> on, the loops continue past every
\* pair that is not eligible; the result is the first eligible position, or
\* <<Len(rs) + 1, 1>> when the loops end.
RECURSIVE Skip(_, _, _)
Skip(rs, r, k) ==
    IF r > Len(rs) THEN <<Len(rs) + 1, 1>>
    ELSE IF Eligible(rs[r], FIELD_LLM_METADATA[k]) THEN <<r, k>>
    ELSE Skip(rs, Succ(r, k)[1], Succ(r, k)[2])

\* process_new_raw_rows, lines 69-83: connect, fetch, and loop up to the
\* first pair that needs a call
Begin ==
    /\ pc = "idle"
    /\ ops < MaxOps
    /\ pc' = "loop"
    /\ rows' = db
    /\ conn' = db
    /\ i' = Skip(db, 1, 1)[1]
    /\ j' = Skip(db, 1, 1)[2]
    /\ updated_values' = 0
    /\ calls' = <<>>
    /\ result' = [status |-> "running", value |-> 0]
    /\ ops' = ops + 1
    /\ lastOp' = "begin"
    /\ streak' = 0
    /\ UNCHANGED <<db, resume, nullDone, okDone, retry, other>>

\* lines 85-87: the call returns parsed_value, which is written and counted;
\* the loops then run on to the next pair that needs a call
ExtractOk ==
    /\ pc = "loop"
    /\ i <= Len(rows)
    /\ Eligible(rows[i], FIELD_LLM_METADATA[j])
    /\ ~ OtherHoldsLock
    /\ \E resp \in Responses(FIELD_LLM_METADATA[j]) :
          LET metadata == FIELD_LLM_METADATA[j]
              out == _extract_column_value(resp)
              row_id == rows[i]["id"].n
          IN  /\ ~ out.raised
              /\ conn' = _update_llm_column(IF HoldsLock THEN conn ELSE db, row_id,
                                            metadata.llm_column, out.value)
              /\ calls' = Append(calls, [id |-> row_id, f |-> j, resp |-> resp,
                                         raised |-> FALSE])
              /\ nullDone' = IF resp.tag = "json" /\ resp.v = NULL
                             THEN nullDone \cup {<<row_id, j>>}
                             ELSE nullDone
              /\ okDone' = IF resp.tag = "json"
                           THEN okDone \cup {<<row_id, j>>}
                           ELSE okDone
    /\ updated_values' = updated_values + 1
    /\ i' = Skip(rows, Succ(i, j)[1], Succ(i, j)[2])[1]
    /\ j' = Skip(rows, Succ(i, j)[1], Succ(i, j)[2])[2]
    /\ lastOp' = "extract"
    /\ UNCHANGED <<db, pc, rows, result, ops, resume, retry, streak, other>>

\* Line 85 raising with the writes made so far committed on the way out.
ExtractRaiseCommits ==
    /\ pc = "loop"
    /\ i <= Len(rows)
    /\ Eligible(rows[i], FIELD_LLM_METADATA[j])
    /\ \E resp \in Responses(FIELD_LLM_METADATA[j]) :
          /\ _extract_column_value(resp).raised
          /\ calls' = Append(calls, [id |-> rows[i]["id"].n, f |-> j, resp |-> resp,
                                     raised |-> TRUE])
    /\ db' = IF HoldsLock THEN conn ELSE db
    /\ pc' = "idle"
    /\ conn' = <<>>
    /\ i' = 0
    /\ j' = 0
    /\ result' = [status |-> "raised", value |-> 0]
    /\ lastOp' = "raise"
    /\ resume' = FALSE
    /\ rows' = <<>>
    /\ retry' = {<<rows[i]["id"].n, j>>}
    /\ UNCHANGED <<updated_values, ops, nullDone, okDone, streak, other>>

\* line 85 raising: the finally clause closes the connection without a
\* commit, and the exception leaves process_new_raw_rows.
ExtractRaise ==
    /\ pc = "loop"
    /\ i <= Len(rows)
    /\ Eligible(rows[i], FIELD_LLM_METADATA[j])
    /\ \E resp \in Responses(FIELD_LLM_METADATA[j]) :
          /\ _extract_column_value(resp).raised
          /\ calls' = Append(calls, [id |-> rows[i]["id"].n, f |-> j, resp |-> resp,
                                     raised |-> TRUE])
    /\ pc' = "idle"
    /\ conn' = <<>>
    /\ i' = 0
    /\ j' = 0
    /\ result' = [status |-> "raised", value |-> 0]
    /\ lastOp' = "raise"
    /\ resume' = FALSE
    /\ rows' = <<>>
    /\ retry' = {<<rows[i]["id"].n, j>>}
    /\ UNCHANGED <<db, updated_values, ops, nullDone, okDone, streak, other>>

\* The commit with the number of fetched rows returned as the count.
CommitCountsRows ==
    /\ pc = "loop"
    /\ i > Len(rows)
    /\ db' = IF HoldsLock THEN conn ELSE db
    /\ pc' = "idle"
    /\ conn' = <<>>
    /\ i' = 0
    /\ j' = 0
    /\ result' = [status |-> "returned", value |-> Len(rows)]
    /\ lastOp' = "commit"
    /\ resume' = TRUE
    /\ rows' = <<>>
    /\ retry' = {}
    /\ UNCHANGED <<updated_values, calls, ops, nullDone, okDone, streak, other>>

\* lines 94-97: commit, return updated_values, close
Commit ==
    /\ pc = "loop"
    /\ i > Len(rows)
    /\ db' = IF HoldsLock THEN conn ELSE db
    /\ pc' = "idle"
    /\ conn' = <<>>
    /\ i' = 0
    /\ j' = 0
    /\ result' = [status |-> "returned", value |-> updated_values]
    /\ lastOp' = "commit"
    /\ resume' = TRUE
    /\ rows' = <<>>
    /\ retry' = {}
    /\ UNCHANGED <<updated_values, calls, ops, nullDone, okDone, streak, other>>

\* ------------------------------------------------ two invocations at once
\* line 86 while the other invocation holds the write lock: the call of line
\* 85 has returned, the UPDATE waits for the connection's timeout and raises
\* sqlite3.OperationalError, which ends the run like any other exception.
ExtractLocked ==
    /\ pc = "loop"
    /\ i <= Len(rows)
    /\ Eligible(rows[i], FIELD_LLM_METADATA[j])
    /\ OtherHoldsLock
    /\ \E resp \in Responses(FIELD_LLM_METADATA[j]) :
          /\ ~ _extract_column_value(resp).raised
          /\ calls' = Append(calls, [id |-> rows[i]["id"].n, f |-> j, resp |-> resp,
                                     raised |-> FALSE])
          /\ nullDone' = IF resp.tag = "json" /\ resp.v = NULL
                         THEN nullDone \cup {<<rows[i]["id"].n, j>>}
                         ELSE nullDone
          /\ okDone' = IF resp.tag = "json"
                       THEN okDone \cup {<<rows[i]["id"].n, j>>}
                       ELSE okDone
    /\ pc' = "idle"
    /\ conn' = <<>>
    /\ i' = 0
    /\ j' = 0
    /\ result' = [status |-> "raised", value |-> 0]
    /\ lastOp' = "locked"
    /\ resume' = FALSE
    /\ rows' = <<>>
    /\ retry' = {}
    /\ UNCHANGED <<db, updated_values, ops, streak, other>>

\* The second invocation: lines 69-83, started while the first is running
OtherBegin ==
    /\ other.pc = "idle"
    /\ pc = "loop"
    /\ ops < MaxOtherOps
    /\ other' = [pc |-> "loop", rows |-> db, conn |-> db,
                 i |-> Skip(db, 1, 1)[1], j |-> Skip(db, 1, 1)[2],
                 updated_values |-> 0, calls |-> <<>>]
    /\ ops' = ops + 1
    /\ lastOp' = "other"
    /\ UNCHANGED <<db, pc, rows, conn, i, j, updated_values, result, calls,
                   resume, nullDone, okDone, retry, streak>>

\* The second invocation: lines 85-87 and the loops up to the next call
OtherExtractOk ==
    /\ other.pc = "loop"
    /\ other.i <= Len(other.rows)
    /\ Eligible(other.rows[other.i], FIELD_LLM_METADATA[other.j])
    /\ ~ HoldsLock
    /\ \E resp \in Responses(FIELD_LLM_METADATA[other.j]) :
          LET metadata == FIELD_LLM_METADATA[other.j]
              out == _extract_column_value(resp)
              row_id == other.rows[other.i]["id"].n
              next == Skip(other.rows, Succ(other.i, other.j)[1],
                           Succ(other.i, other.j)[2])
          IN  /\ ~ out.raised
              /\ other' = [other EXCEPT
                    !.conn = _update_llm_column(
                                 IF OtherHoldsLock THEN other.conn ELSE db,
                                 row_id, metadata.llm_column, out.value),
                    !.calls = Append(other.calls, [id |-> row_id, f |-> other.j]),
                    !.updated_values = other.updated_values + 1,
                    !.i = next[1],
                    !.j = next[2]]
    /\ lastOp' = "other"
    /\ UNCHANGED <<db, pc, rows, conn, i, j, updated_values, result, calls, ops,
                   resume, nullDone, okDone, retry, streak>>

\* The second invocation: line 85 raising
OtherExtractRaise ==
    /\ other.pc = "loop"
    /\ other.i <= Len(other.rows)
    /\ Eligible(other.rows[other.i], FIELD_LLM_METADATA[other.j])
    /\ \E resp \in Responses(FIELD_LLM_METADATA[other.j]) :
          /\ _extract_column_value(resp).raised
          /\ other' = OtherIdle(Append(other.calls,
                          [id |-> other.rows[other.i]["id"].n, f |-> other.j]))
    /\ lastOp' = "other"
    /\ UNCHANGED <<db, pc, rows, conn, i, j, updated_values, result, calls, ops,
                   resume, nullDone, okDone, retry, streak>>

\* The second invocation: line 86 while the first holds the write lock
OtherExtractLocked ==
    /\ other.pc = "loop"
    /\ other.i <= Len(other.rows)
    /\ Eligible(other.rows[other.i], FIELD_LLM_METADATA[other.j])
    /\ HoldsLock
    /\ \E resp \in Responses(FIELD_LLM_METADATA[other.j]) :
          /\ ~ _extract_column_value(resp).raised
          /\ other' = OtherIdle(Append(other.calls,
                          [id |-> other.rows[other.i]["id"].n, f |-> other.j]))
    /\ lastOp' = "other"
    /\ UNCHANGED <<db, pc, rows, conn, i, j, updated_values, result, calls, ops,
                   resume, nullDone, okDone, retry, streak>>

\* The second invocation: lines 94-97
OtherCommit ==
    /\ other.pc = "loop"
    /\ other.i > Len(other.rows)
    /\ db' = IF OtherHoldsLock THEN other.conn ELSE db
    /\ other' = OtherIdle(other.calls)
    /\ lastOp' = "other"
    /\ UNCHANGED <<pc, rows, conn, i, j, updated_values, result, calls, ops,
                   resume, nullDone, okDone, retry, streak>>

NextConcurrent ==
    \/ InsertRow
    \/ Begin
    \/ ExtractOk
    \/ ExtractRaise
    \/ ExtractLocked
    \/ Commit
    \/ OtherBegin
    \/ OtherExtractOk
    \/ OtherExtractRaise
    \/ OtherExtractLocked
    \/ OtherCommit

SpecConcurrent == Init /\ [][NextConcurrent]_vars

\* update_validation_statuses, the whole pass in one transaction
update_validation_statuses ==
    /\ pc = "idle"
    /\ other.pc = "idle"
    /\ ops < MaxOps
    /\ db' = ValidatePairs(NormalizeBuySellLLM(db), NumFields)
    /\ ops' = ops + 1
    /\ lastOp' = "validate"
    /\ streak' = streak + 1
    /\ Forget
    /\ UNCHANGED <<pc, rows, conn, i, j, resume, nullDone, okDone, retry, other>>

\* ------------------------------------------- the normalizers on any content
\* Cell values a store can hold when a validation pass starts: what upstream
\* wrote into a source column and what the model returned into a *_LLM one.
GenericInputs ==
    {NULL, Text(<<>>), Text(<<" ">>), Text(<<" ", " ">>), Text(<<"b">>),
     Text(<<" ", "b", " ">>), Text(<<"B">>), Text(<<"5", ".", "0">>)}

SideInputs ==
    {NULL, Text(<<>>), Text(<<" ">>), Text(<<" ", " ">>),
     Text(<<"B", "U", "Y">>), Text(<<" ", "b", " ">>),
     Text(<<"P", "u", "r", "c", "h", "a", "s", "e">>),
     Text(<<"L", "O", "N", "G", " ">>),
     Text(<<"s", "e", "l", "l">>), Text(<<" ", "S">>),
     Text(<<"S", "h", "o", "r", "t">>),
     Text(<<"D", "I", "S", "P", "O", "S", "E">>),
     Text(<<"h", "o", "l", "d">>), Text(<<" ", "H", "O", "L", "D">>),
     Text(<<"B", "u", "y", "s">>)}

AnyRow(cur, cur_llm, side, side_llm) ==
    [c \in Columns |->
        IF c = "id" THEN Integer(1)
        ELSE IF c = "creation_date" THEN CURRENT_TIMESTAMP
        ELSE IF c = "currency" THEN cur
        ELSE IF c = "currency_LLM" THEN cur_llm
        ELSE IF c = "buy_sell" THEN side
        ELSE IF c = "buy_sell_LLM" THEN side_llm
        ELSE NULL]

InitNormalize ==
    /\ \E cur, cur_llm \in GenericInputs : \E side, side_llm \in SideInputs :
          db = <<AnyRow(cur, cur_llm, side, side_llm)>>
    /\ pc = "idle"
    /\ rows = <<>>
    /\ conn = <<>>
    /\ i = 0
    /\ j = 0
    /\ updated_values = 0
    /\ result = [status |-> "none", value |-> 0]
    /\ calls = <<>>
    /\ lastOp = "insert"
    /\ ops = 1
    /\ resume = FALSE
    /\ nullDone = {}
    /\ okDone = {}
    /\ retry = {}
    /\ streak = 0
    /\ other = OtherIdle(<<>>)

NextNormalize == update_validation_statuses

SpecNormalize == InitNormalize /\ [][NextNormalize]_vars

\* ------------------------------------------------------------------ claims
Rows == 1..Len(db)

Fields == 1..NumFields

SourceCell(r, k) == db[r][SourceColumns[k]]

LLMCell(r, k) == db[r][LLMColumnOf(SourceColumns[k])]

ValidationCell(r, k) == db[r][ValidationColumnOf(SourceColumns[k])]

\* A step of process_new_raw_rows that ends the run by returning.
RunReturns == lastOp' = "commit"

\* A step in which an extraction call is issued for pair <<r, k>>.
CallIssued(r, k) ==
    /\ Len(calls') = Len(calls) + 1
    /\ calls'[Len(calls')].id = r
    /\ calls'[Len(calls')].f = k

\* C1: a run that follows a completed run, with no source cell changed in
\* between, returns 0 and leaves the store as it was.
C1_IdempotentResume ==
    [][(RunReturns /\ resume) => (result'.value = 0 /\ db' = db)]_vars

\* C2: a run of process_new_raw_rows never changes an extracted value that
\* is non-null in the store.
C2_MonotonicFill ==
    [][RunReturns =>
         \A r \in Rows, k \in Fields :
            LLMCell(r, k) # NULL =>
               db'[r][LLMColumnOf(SourceColumns[k])] = LLMCell(r, k)]_vars

\* C3: no extraction call is issued for a pair whose earlier call returned
\* JSON null, as long as the pair's source value is unchanged.
C3_NullNotRetried ==
    [][\A p \in nullDone : ~ CallIssued(p[1], p[2])]_vars

\* The pairs a run starting on table t must call the model for.
EligiblePairs(t) ==
    {p \in (1..Len(t)) \X Fields : Eligible(t[p[1]], FIELD_LLM_METADATA[p[2]])}

\* C4: when a call of a run failed, every other eligible pair of the run
\* was still attempted, and the value of every call that succeeded is in
\* the store at the end of the run. (A run that raises
\* commits nothing, so the pairs eligible at its start are those eligible
\* in the store at its end.)
C4_FailureIsolation ==
    (lastOp \in {"commit", "raise"} /\ \E n \in 1..Len(calls) : calls[n].raised) =>
        /\ \A p \in EligiblePairs(db) :
              \E n \in 1..Len(calls) : calls[n].id = p[1] /\ calls[n].f = p[2]
        /\ \A n \in 1..Len(calls) :
              ~ calls[n].raised =>
                 LLMCell(calls[n].id, calls[n].f)
                    = Stored(LLMColumnOf(SourceColumns[calls[n].f]), calls[n].resp.v)

\* Present: neither null nor empty or whitespace-only.
Present(v) == v # NULL /\ strip(str(v)) # <<>>

\* The normalized form of a present value of field k, as a string.
NormalForm(k, v) ==
    IF SourceColumns[k] = "buy_sell" THEN _normalize_buy_sell(v).s ELSE _normalize(v).s

\* C5: after a validation pass the status of every pair is 'matched' exactly
\* when source and extracted value are both present and their normalized
\* forms are equal, and 'unmatched' otherwise.
C5_ValidationVerdict ==
    lastOp = "validate" =>
       \A r \in Rows, k \in Fields :
          LET both == /\ Present(SourceCell(r, k))
                      /\ Present(LLMCell(r, k))
                      /\ NormalForm(k, SourceCell(r, k)) = NormalForm(k, LLMCell(r, k))
          IN  ValidationCell(r, k) = IF both THEN MATCHED ELSE UNMATCHED

\* C6: every validation column holds 'matched', 'unmatched' or null, and
\* right after a validation pass none of them is null.
C6_ValidationTotality ==
    \A r \in Rows, k \in Fields :
       /\ ValidationCell(r, k) \in {MATCHED, UNMATCHED, NULL}
       /\ lastOp = "validate" => ValidationCell(r, k) \in {MATCHED, UNMATCHED}

\* C6 witness: a pass has just run over a row whose pairs include a match, a
\* mismatch of two present values, and a pair with nothing extracted.
C6_Witness ==
    /\ lastOp = "validate"
    /\ \E r \in Rows :
          /\ \E k \in Fields : ValidationCell(r, k) = MATCHED
          /\ \E k \in Fields :
                /\ ValidationCell(r, k) = UNMATCHED
                /\ Present(SourceCell(r, k))
                /\ Present(LLMCell(r, k))
          /\ \E k \in Fields : LLMCell(r, k) = NULL /\ ValidationCell(r, k) = UNMATCHED

KeptColumns == SourceSet \cup {"id", "creation_date"}

C8_SourceNeverMutated ==
    [][lastOp' \notin {"insert", "edit"} =>
         /\ Len(db') = Len(db)
         /\ \A r \in Rows, c \in KeptColumns : db'[r][c] = db[r][c]
         /\ lastOp' = "extract" =>
               \A r \in 1..Len(conn), c \in KeptColumns : conn'[r][c] = conn[r][c]]_vars

\* C8 witness: a run wrote and committed an extracted value that differs
\* from the source value of its pair, and a validation pass followed.
C8_Witness ==
    /\ lastOp = "validate"
    /\ \E r \in Rows, k \in Fields :
          Present(LLMCell(r, k)) /\ LLMCell(r, k) # SourceCell(r, k)

\* C9: buy_sell_LLM of every stored row is "BUY", "SELL" or null.
C9_EnumerationClosure ==
    \A r \in Rows : db[r]["buy_sell_LLM"] \in {BUY, SELL, NULL}

\* format_schema: the value is null or of the declared JSON type, and one of
\* the enumerated values when the schema has an enum.
SchemaAllows(metadata, v) ==
    /\ \/ v = NULL
       \/ metadata.json_type = "string" /\ v.kind = "text"
       \/ metadata.json_type = "number" /\ v.kind = "real"
    /\ metadata.enum # {} => v \in metadata.enum

\* A response that is not a JSON object matching the field's schema.
Deviates(metadata, resp) ==
    \/ resp.tag = "nonjson"
    \/ resp.tag = "nokey"
    \/ resp.tag = "json" /\ ~ SchemaAllows(metadata, resp.v)

\* C10: a call whose response is not JSON, lacks the output key or violates
\* the schema ends as a failure, and nothing is written for its pair.
C10_SchemaViolationFails ==
    \A n \in 1..Len(calls) :
       Deviates(FIELD_LLM_METADATA[calls[n].f], calls[n].resp) =>
          /\ calls[n].raised
          /\ pc = "loop" =>
                conn[calls[n].id][LLMColumnOf(SourceColumns[calls[n].f])]
                   = rows[calls[n].id][LLMColumnOf(SourceColumns[calls[n].f])]


\* C11 (at-most-once extraction): over any sequence of runs, a record-field
\* pair for which one extraction call has already returned a JSON value is
\* never issued a second call that returns successfully.
C11_AtMostOnceExtraction ==
    [][\A p \in okDone :
          ~ (/\ CallIssued(p[1], p[2])
             /\ ~ calls'[Len(calls')].raised
             /\ calls'[Len(calls')].resp.tag = "json")]_vars

\* The log of a run holds a call for pair p.
CalledInRun(log, p) ==
    \E n \in 1..Len(log) : log[n].id = p[1] /\ log[n].f = p[2]

\* C12 (a failed pair stays unresolved and is retried): when a run ends in
\* the failure of a pair's extraction call, the pair's extracted column is
\* what it was before the run and holds no value, the run issued no other
\* call for that pair, and the next run to finish, the source being
\* unchanged, has issued a call for the pair again.
C12_FailedPairRetried ==
    [][/\ lastOp' = "raise" =>
             LET last == calls'[Len(calls')]
                 col  == LLMColumnOf(SourceColumns[last.f])
             IN  /\ last.raised
                 /\ db'[last.id][col] = db[last.id][col]
                 /\ ~ Present(db'[last.id][col])
                 /\ \A n \in 1..(Len(calls') - 1) :
                        ~ (calls'[n].id = last.id /\ calls'[n].f = last.f)
       /\ lastOp' \in {"commit", "raise"} =>
             \A p \in retry : CalledInRun(calls', p)]_vars

\* C13 (crash consistency): at every step of a run, a stop included, each
\* extracted column of the persisted store either keeps the value it had
\* before the step or holds the whole value returned by a successful call of
\* this run for that same record-field pair; the row count does not change.
C13_CrashConsistency ==
    [][lastOp' \in {"begin", "extract", "raise", "commit"} =>
          /\ Len(db') = Len(db)
          /\ \A r \in Rows, k \in Fields :
                LET col == LLMColumnOf(SourceColumns[k])
                IN  \/ db'[r][col] = db[r][col]
                    \/ \E n \in 1..Len(calls') :
                          /\ calls'[n].id = r
                          /\ calls'[n].f = k
                          /\ ~ calls'[n].raised
                          /\ db'[r][col] = Stored(col, calls'[n].resp.v)]_vars

\* A run stopped by a failing call after an earlier call had returned a value:
\* the value was written on the connection and is not in the persisted store.
C13_Witness ==
    /\ lastOp = "raise"
    /\ \E n \in 1..Len(calls) :
          /\ ~ calls[n].raised
          /\ Present(calls[n].resp.v)
          /\ LLMCell(calls[n].id, calls[n].f) = NULL

\* C14 (validation is idempotent and memoryless): a validation pass that
\* directly follows a validation pass leaves the store as it is, and the
\* status every pass writes for a pair is a function of the pair's source
\* and extracted values at the start of the pass alone, whatever status was
\* stored before.
C14_ValidationIdempotent ==
    [][lastOp' = "validate" =>
          /\ lastOp = "validate" => db' = db
          /\ \A r \in Rows, k \in Fields :
                db'[r][ValidationColumnOf(SourceColumns[k])] =
                    Status(SourceColumns[k], SourceCell(r, k), LLMCell(r, k))]_vars

\* Two passes in a row over a row that has a matched and an unmatched pair.
C14_Witness ==
    /\ lastOp = "validate"
    /\ streak >= 2
    /\ \E r \in Rows : \E k, l \in Fields :
          /\ ValidationCell(r, k) = MATCHED
          /\ ValidationCell(r, l) = UNMATCHED
          /\ LLMCell(r, l) # NULL

\* The index of the side field in the field order.
SideField == CHOOSE k \in Fields : SourceColumns[k] = "buy_sell"

\* C15 (generic normalization of absence): for every non-side field, once a
\* validation pass has normalized the pair, _normalize has mapped a null, an
\* empty and a whitespace-only cell to the absent marker None, and every other
\* cell to its trimmed string, which is not the absent marker.
C15_GenericAbsence ==
    lastOp = "validate" =>
        \A r \in Rows, k \in Fields \ {SideField} :
            \A v \in {SourceCell(r, k), LLMCell(r, k)} :
                IF Present(v)
                THEN _normalize(v) = Text(strip(str(v))) /\ _normalize(v) # NULL
                ELSE _normalize(v) = NULL

\* Expected results of side normalization, input by input.
ToBuy == Text(<<"b", "u", "y">>)

ToSell == Text(<<"s", "e", "l", "l">>)

SideOracle ==
    {<<NULL, NULL>>, <<Text(<<>>), NULL>>, <<Text(<<" ">>), NULL>>,
     <<Text(<<" ", " ">>), NULL>>,
     <<Text(<<"B", "U", "Y">>), ToBuy>>, <<Text(<<" ", "b", " ">>), ToBuy>>,
     <<Text(<<"P", "u", "r", "c", "h", "a", "s", "e">>), ToBuy>>,
     <<Text(<<"L", "O", "N", "G", " ">>), ToBuy>>, <<ToBuy, ToBuy>>,
     <<ToSell, ToSell>>, <<Text(<<" ", "S">>), ToSell>>,
     <<Text(<<"S", "h", "o", "r", "t">>), ToSell>>,
     <<Text(<<"D", "I", "S", "P", "O", "S", "E">>), ToSell>>,
     <<Text(<<"h", "o", "l", "d">>), Text(<<"h", "o", "l", "d">>)>>,
     <<Text(<<" ", "H", "O", "L", "D">>), Text(<<"h", "o", "l", "d">>)>>,
     <<Text(<<"B", "u", "y", "s">>), Text(<<"b", "u", "y", "s">>)>>,
     <<Text(<<"b", "u", "y", "s">>), Text(<<"b", "u", "y", "s">>)>>}

\* C16 (side normalization): _normalize_buy_sell maps buy, b, purchase and
\* long to "buy" and sell, s, short and dispose to "sell" in any case and
\* with any surrounding whitespace, maps null, empty and whitespace-only input
\* to absent, returns every other token lower-cased and trimmed, and applied
\* to its own result returns that result; the pass stores that form.
C16_SideNormalization ==
    [][lastOp' = "validate" =>
          \A r \in Rows :
              /\ \E pr \in SideOracle :
                    /\ db[r]["buy_sell_LLM"] = pr[1]
                    /\ db'[r]["buy_sell_LLM"] = pr[2]
                    /\ _normalize_buy_sell(pr[2]) = pr[2]
              /\ \E pr \in SideOracle :
                    /\ db[r]["buy_sell"] = pr[1]
                    /\ _normalize_buy_sell(db[r]["buy_sell"]) = pr[2]
                    /\ _normalize_buy_sell(pr[2]) = pr[2]]_vars

\* A pass has stored "sell" for an extracted side given in another case, and
\* matched it with an upper-case synonym in the source.
C16_Witness ==
    /\ lastOp = "validate"
    /\ \E r \in Rows :
          /\ db[r]["buy_sell"] = Text(<<"D", "I", "S", "P", "O", "S", "E">>)
          /\ db[r]["buy_sell_LLM"] = ToSell
          /\ db[r]["buy_sell_validation"] = MATCHED

\* C17 (extraction precondition): no step of a run issues an extraction call
\* for a pair whose source value is null, empty or whitespace-only; every
\* call in the run's log is for a pair with a present source, the counter
\* counts exactly the logged calls, a failure is a logged call, and the
\* extracted column of a pair without a source value is left as it was, on
\* the connection and in the store.
C17_ExtractionPrecondition ==
    [][lastOp' \in {"begin", "extract", "raise", "commit"} =>
          /\ \A r \in Rows, k \in Fields :
                ~ Present(SourceCell(r, k)) =>
                    /\ ~ CallIssued(r, k)
                    /\ db'[r][LLMColumnOf(SourceColumns[k])] = LLMCell(r, k)
                    /\ pc' = "loop" =>
                          conn'[r][LLMColumnOf(SourceColumns[k])] = LLMCell(r, k)
          /\ \A n \in 1..Len(calls') :
                Present(SourceCell(calls'[n].id, calls'[n].f))
          /\ pc' = "loop" => updated_values' = Len(calls')
          /\ lastOp' = "raise" => calls' # <<>> /\ calls'[Len(calls')].raised]_vars

\* A run has committed a call although an earlier pair of the same row had
\* an empty source and a later one a null source; neither got a value.
C17_Witness ==
    /\ lastOp = "commit"
    /\ \E r \in Rows : \E k, l, m \in Fields :
          /\ k < l /\ l < m
          /\ SourceCell(r, k) = Text(<<>>) /\ LLMCell(r, k) = NULL
          /\ CalledInRun(calls, <<r, l>>) /\ Present(LLMCell(r, l))
          /\ SourceCell(r, m) = NULL /\ LLMCell(r, m) = NULL

\* The step in which the second invocation issues a call for pair p.
OtherCallIssued(p) ==
    /\ Len(other'.calls) = Len(other.calls) + 1
    /\ other'.calls[Len(other'.calls)].id = p[1]
    /\ other'.calls[Len(other'.calls)].f = p[2]

\* C18 (concurrent idempotency): when two invocations of
\* process_new_raw_rows run at the same time, neither issues an extraction
\* call for a record-field pair for which the other, still running, has
\* issued one in its run.
C18_ConcurrentIdempotency ==
    [][\A p \in (1..Len(db)) \X Fields :
          /\ (pc = "loop" /\ OtherCallIssued(p)) => ~ CalledInRun(calls, p)
          /\ (other.pc = "loop" /\ CallIssued(p[1], p[2])) =>
                ~ CalledInRun(other.calls, p)]_vars

\* Pair <<r, k>> has a source value and no extracted value.
Unresolved(r, k) == Present(SourceCell(r, k)) /\ ~ Present(LLMCell(r, k))

C20_UpdateCount ==
    lastOp = "commit" =>
        /\ result.status = "returned"
        /\ result.value = Len(calls)
        /\ result.value =
              Cardinality({p \in Rows \X Fields :
                  \E n \in 1..Len(calls) :
                      /\ calls[n].id = p[1]
                      /\ calls[n].f = p[2]
                      /\ ~ calls[n].raised
                      /\ LLMCell(p[1], p[2]) =
                            Stored(LLMColumnOf(SourceColumns[p[2]]), calls[n].resp.v)})

\* A run has returned 2 for a row of which a third pair was skipped.
C20_Witness ==
    /\ lastOp = "commit"
    /\ result.value = 2
    /\ \E r \in Rows, k \in Fields :
          SourceCell(r, k) = NULL /\ ~ CalledInRun(calls, <<r, k>>)

\* C21 (all-or-nothing run): while a run is under way the persisted store is
\* the store the run fetched at its start, and when an extraction call raises
\* the store after the run is that same store: nothing the run wrote is
\* committed, the values of calls that had succeeded earlier included.
C21_AllOrNothing ==
    [][/\ lastOp' \in {"begin", "extract"} => db' = rows'
       /\ lastOp' = "raise" => db' = db /\ db' = rows]_vars

\* A run has ended in a raise after one call had succeeded and been counted;
\* no extracted column of the row holds anything.
C21_Witness ==
    /\ result.status = "raised"
    /\ Len(calls) = 2
    /\ ~ calls[1].raised /\ Present(calls[1].resp.v)
    /\ calls[2].raised
    /\ updated_values = 1
    /\ \A r \in Rows, k \in Fields : LLMCell(r, k) = NULL

\* C22 (the processor writes extraction columns only): no step of a run of
\* process_new_raw_rows changes a validation status, in the store or on the
\* run's connection; a status written by an earlier pass therefore stays,
\* also when the run fills the pair and the verdict of the pair changes.
C22_StatusUntouchedByRun ==
    [][lastOp' \in {"begin", "extract", "raise", "commit"} =>
          \A r \in Rows, c \in ValidationSet :
              /\ db'[r][c] = db[r][c]
              /\ pc' = "loop" => conn'[r][c] = db[r][c]]_vars

\* A run has just filled a pair whose stored status, written by a pass before
\* the run, is 'unmatched' while its source and extracted value now match.
C22_Witness ==
    /\ lastOp = "commit"
    /\ \E r \in Rows, k \in Fields :
          /\ CalledInRun(calls, <<r, k>>)
          /\ ValidationCell(r, k) = UNMATCHED
          /\ Status(SourceColumns[k], SourceCell(r, k), LLMCell(r, k)) = MATCHED

Next ==
    \/ InsertRow
    \/ EditSource
    \/ Begin
    \/ ExtractOk
    \/ ExtractRaise
    \/ Commit
    \/ update_validation_statuses

Spec == Init /\ [][Next]_vars

====
